---- MODULE Spec2Model ----
(***************************************************************************)
(* Real-time voice conversion: the stream scheduler (tabs/realtime),       *)
(* the device stream wrapper (rvc/lib/realtime_audio_utils) and the        *)
(* resource session (rvc/infer/realtime_infer.RealtimeVoiceConverter).     *)
(*                                                                         *)
(* Control operations (start/stop) run on UI worker threads and are        *)
(* modelled as small-step processes, one per control thread; the audio     *)
(* callback runs on the device thread and is a third process.  Collaborator*)
(* outcomes (model files that load or fail, a device transport that raises,*)
(* a VAD decision, a chunk processor that returns or raises) are           *)
(* nondeterministic choices.                                               *)
(***************************************************************************)
EXTENDS Integers, Sequences, FiniteSets, TLC

\* Python's None, and a present value: optional fields hold None or Some(v)
None == <<>>
Some(v) == <<v>>
Val(o) == o[1]

(* ------------------------------ bounds --------------------------------- *)
\* number of device stream objects that can exist at once (closed ones are reused)
MaxStreams == 2

(* --------------------------- program constants ------------------------- *)
REALTIME_STREAM_SAMPLE_RATE == 48000
REALTIME_CHUNK_SIZE == 1024
HUBERT_SAMPLE_RATE == 16000
input_channels == 1
output_channels == 1

(* ------------------------------- inputs -------------------------------- *)
Ctl == {1, 2}                      \* control (UI worker) threads
StreamIds == 1..MaxStreams
ModelPaths == {"", "m1", "m2"}     \* "" is the missing model path
IndexPaths == {"", "i1"}
SidValues == {0}
EmbedderNames == {"contentvec", "custom"}
PitchValues == {0, 12}
\* target sample rate stored in each model file (cpt["config"][-1])
ModelTgtSr(path) == IF path = "m1" THEN 40000 ELSE 48000

VARIABLES
    rt,                              \* rt_converter: the RealtimeVoiceConverter fields
    is_realtime_processing_active,   \* realtime.py top-level state
    vad_processor,                   \* realtime.py: None or a VADProcessor
    realtime_settings,               \* realtime.py: settings read by the callback
    last_loaded,                     \* realtime.py: last_loaded_{model_path,index_path,sid,embedder}
    _stream,                         \* realtime_audio_utils: stream handle (None or a stream id)
    _is_streaming,                   \* realtime_audio_utils: flag
    process_audio_chunk_callback,    \* realtime_audio_utils: None or the registered callback
    hw,                              \* device transport: state of every stream object
    ctl,                             \* per control thread: position, arguments, result
    cb,                              \* the audio callback invocation in flight, and its outcome
    chunk                            \* a process_chunk call: its inputs, position and intermediate values

vars == <<rt, is_realtime_processing_active, vad_processor, realtime_settings,
          last_loaded, _stream, _is_streaming, process_audio_chunk_callback,
          hw, ctl, cb, chunk>>

(* ======================= RealtimeVoiceConverter ======================== *)

\* __init__: every handle and identity starts unset
ConverterInit ==
    [hubert_model |-> None, current_embedder_model |-> None,
     net_g |-> None, cpt |-> None, vc_pipeline |-> None,
     current_model_path |-> None, sid |-> None, tgt_sr |-> None,
     index |-> None, big_npy |-> None, current_index_path |-> None]

\* variant of is_ready that does not look at the pipeline configuration
is_ready_without_pipeline(c) == c.hubert_model # None /\ c.net_g # None

\* is_ready(): all three of embedder, generator, pipeline configuration present
is_ready(c) ==
    c.hubert_model # None /\ c.net_g # None /\ c.vc_pipeline # None

\* _load_hubert: no-op when loaded under the same name; otherwise a heavy load
\* that either installs the handle and its identity, or clears the handle.
\* ok is the outcome of load_embedding (TRUE = the file loads).
\* variant of the line-56 test that never finds the embedder loaded
load_hubert_skips_never(c, name) == FALSE

load_hubert_skips(c, name) ==
    c.hubert_model # None /\ c.current_embedder_model = Some(name)

load_hubert_state(c, name, ok) ==
    IF load_hubert_skips(c, name) THEN c
    ELSE IF ok THEN [c EXCEPT !.hubert_model = Some(name), !.current_embedder_model = Some(name)]
    ELSE [c EXCEPT !.hubert_model = None]

load_hubert_result(c, name, ok) == load_hubert_skips(c, name) \/ ok

\* _load_rvc_model: no-op when generator present and (path, sid) match.
\* Outcomes of the heavy path: "ok"; "fail_read" (torch.load raises, nothing
\* assigned yet beyond the except clause); "fail_build" (raises after cpt and
\* tgt_sr were assigned, lines 81-83, and before the identities are).
RvcOutcomes == {"ok", "fail_read", "fail_build"}

\* variant of the line-75 test that never finds the model loaded
load_rvc_skips_never(c, path, s) == FALSE

load_rvc_skips(c, path, s) ==
    c.net_g # None /\ c.current_model_path = Some(path) /\ c.sid = Some(s)

\* variant of _load_rvc_model whose except clause leaves the handles in place
load_rvc_state_keeps_handles(c, path, s, out) ==
    IF load_rvc_skips(c, path, s) THEN c
    ELSE IF out = "ok" THEN
        [c EXCEPT !.cpt = Some(path), !.tgt_sr = Some(ModelTgtSr(path)),
                  !.net_g = Some(path), !.current_model_path = Some(path),
                  !.sid = Some(s), !.vc_pipeline = Some(ModelTgtSr(path))]
    ELSE IF out = "fail_build" THEN [c EXCEPT !.tgt_sr = Some(ModelTgtSr(path))]
    ELSE c

load_rvc_state(c, path, s, out) ==
    IF load_rvc_skips(c, path, s) THEN c
    ELSE IF out = "ok" THEN
        [c EXCEPT !.cpt = Some(path), !.tgt_sr = Some(ModelTgtSr(path)),
                  !.net_g = Some(path), !.current_model_path = Some(path),
                  !.sid = Some(s), !.vc_pipeline = Some(ModelTgtSr(path))]
    ELSE IF out = "fail_build" THEN
        [c EXCEPT !.tgt_sr = Some(ModelTgtSr(path)),
                  !.net_g = None, !.cpt = None, !.vc_pipeline = None]
    ELSE [c EXCEPT !.net_g = None, !.cpt = None, !.vc_pipeline = None]

load_rvc_result(c, path, s, out) == load_rvc_skips(c, path, s) \/ out = "ok"

\* _load_index: empty or missing path clears the index and succeeds; same path
\* already loaded is a no-op; otherwise a heavy read that installs or clears.
\* Outcomes for a non-empty path: "missing" (os.path.exists is false),
\* "unreadable" (faiss.read_index raises), "ok".
IndexOutcomes == {"ok", "missing", "unreadable"}

\* variant of the line-129 test without the os.path.exists check
load_index_clears_empty_only(path, out) == path = ""

load_index_clears(path, out) == path = "" \/ out = "missing"

load_index_skips(c, path) == c.index # None /\ c.current_index_path = Some(path)

load_index_state(c, path, out) ==
    IF load_index_clears(path, out) THEN
        [c EXCEPT !.index = None, !.big_npy = None, !.current_index_path = None]
    ELSE IF load_index_skips(c, path) THEN c
    ELSE IF out = "ok" THEN [c EXCEPT !.index = Some(path), !.big_npy = Some(path),
                                      !.current_index_path = Some(path)]
    ELSE [c EXCEPT !.index = None, !.big_npy = None]

load_index_result(c, path, out) ==
    load_index_clears(path, out) \/ load_index_skips(c, path) \/ out = "ok"


\* load_resources, as the sequence of its three steps with short-circuit.
\* o = [hubert: BOOLEAN, rvc: RvcOutcomes, index: IndexOutcomes]
\* variant of load_resources that goes on to the next step after a failure
load_resources_state_runs_all(c, path, ipath, s, name, o) ==
    IF path = "" THEN c
    ELSE load_index_state(load_rvc_state(load_hubert_state(c, name, o.hubert),
                                         path, s, o.rvc),
                          ipath, o.index)

load_resources_state(c, path, ipath, s, name, o) ==
    IF path = "" THEN c
    ELSE LET c1 == load_hubert_state(c, name, o.hubert) IN
         IF ~load_hubert_result(c, name, o.hubert) THEN c1
         ELSE LET c2 == load_rvc_state(c1, path, s, o.rvc) IN
              IF ~load_rvc_result(c1, path, s, o.rvc) THEN c2
              ELSE load_index_state(c2, ipath, o.index)

(* ============================ audio blocks ============================= *)
\* A block is its shape (numpy shape tuple) and whether its samples are the
\* microphone signal, a converted signal, or all zeros.
Block(kind, shape) == [kind |-> kind, shape |-> shape]

zeros_like(b) == Block("zeros", b.shape)
is_zeros(b) == b.kind = "zeros"

\* librosa.resample along the last axis: ceil(n * target / orig) samples
resample_len(n, orig_sr, target_sr) ==
    IF orig_sr = target_sr THEN n ELSE (n * target_sr + orig_sr - 1) \div orig_sr

resample(b, orig_sr, target_sr) ==
    Block(b.kind,
          [i \in 1..Len(b.shape) |->
              IF i = Len(b.shape) THEN resample_len(b.shape[i], orig_sr, target_sr)
              ELSE b.shape[i]])

\* number of samples in a block of the given shape
samples(shape) == IF Len(shape) = 1 THEN shape[1] ELSE shape[1] * shape[2]

\* the block the device hands to audio_callback, and the shape of outdata
indata == Block("mic", <<REALTIME_CHUNK_SIZE, input_channels>>)
outdata_shape == <<REALTIME_CHUNK_SIZE, output_channels>>

(* ====================== realtime.py: control path ====================== *)

DefaultSettings == [vad_enabled |-> TRUE, pitch |-> 0]

NoArgs == [model_path |-> "", index_path |-> "", sid |-> 0,
           embedder |-> "contentvec", vad_enabled |-> TRUE, pitch |-> 0,
           valid |-> TRUE]

StartArgs ==
    [model_path : ModelPaths, index_path : IndexPaths, sid : SidValues,
     embedder : {"contentvec"}, vad_enabled : BOOLEAN, pitch : PitchValues,
     valid : BOOLEAN]

\* a control thread's record: position, operation, arguments, boolean result
\* and status message; for a direct call of a load operation also the load
\* steps it attempted (in order), those that took the heavy path, what the
\* index file turned out to be, and whether the call repeats the call before
\* it (same operation and arguments) and that call succeeded
CtlIdle == [pc |-> "idle", op |-> "none", args |-> NoArgs, flag |-> FALSE,
            status |-> "none", steps |-> <<>>, heavy |-> {}, iout |-> "none",
            rep |-> FALSE]

\* variant of the line-172 test that consults the processing flag only
already_active_flag_only(active, streaming) == active

\* line 172: the already-active test of start_realtime_conversion
already_active(active, streaming) == active \/ streaming

\* lines 189-192: the 4-tuple comparison
norm_index(p) == IF p = "" THEN "" ELSE p

\* variant of lines 189-192 that leaves the index path out of the comparison
needs_load_without_index(a, last) ==
    \/ a.model_path # last.model_path
    \/ a.sid # last.sid
    \/ a.embedder # last.embedder

needs_load(a, last) ==
    \/ a.model_path # last.model_path
    \/ norm_index(a.index_path) # norm_index(last.index_path)
    \/ a.sid # last.sid
    \/ a.embedder # last.embedder

\* a control operation returns: the thread is idle again, its status is kept
Return(t, st) ==
    ctl' = [ctl EXCEPT ![t] = [CtlIdle EXCEPT !.status = st, !.op = ctl[t].op]]

Goto(t, pc) == ctl' = [ctl EXCEPT ![t].pc = pc]

GotoFlag(t, pc, f) == ctl' = [ctl EXCEPT ![t].pc = pc, ![t].flag = f]

\* a stream object that nothing references and that is not running is inert
Release(h, s) ==
    IF s # None /\ h[Val(s)] # "active" THEN [h EXCEPT ![Val(s)] = "free"] ELSE h


(* ------------------- start_realtime_conversion ------------------------- *)

\* a UI worker thread calls start_realtime_conversion(a): lines 172-186,
\* the already-active rejection, then argument validation
StartCheck(t, A) ==
    /\ ctl[t].pc = "idle"
    /\ \E a \in A :
         LET c == [CtlIdle EXCEPT !.pc = "s_cmp", !.op = "start", !.args = a] IN
         IF already_active(is_realtime_processing_active, _is_streaming)
           THEN ctl' = [ctl EXCEPT ![t] = [CtlIdle EXCEPT !.op = "start",
                                                          !.status = "already_active"]]
         ELSE IF ~a.valid
           THEN ctl' = [ctl EXCEPT ![t] = [CtlIdle EXCEPT !.op = "start",
                                                          !.status = "invalid_argument"]]
         ELSE IF a.model_path = ""
           THEN ctl' = [ctl EXCEPT ![t] = [CtlIdle EXCEPT !.op = "start",
                                                          !.status = "model_path_required"]]
         ELSE ctl' = [ctl EXCEPT ![t] = c]
    /\ UNCHANGED <<rt, is_realtime_processing_active, vad_processor, realtime_settings,
                   last_loaded, _stream, _is_streaming, process_audio_chunk_callback,
                   hw, cb>>
    /\ UNCHANGED chunk

\* lines 189-192, 207-209: reload only if the 4-tuple changed
StartCompare(t) ==
    /\ ctl[t].pc = "s_cmp"
    /\ IF needs_load(ctl[t].args, last_loaded) THEN Goto(t, "l_hubert")
       ELSE Goto(t, "s_ready")
    /\ UNCHANGED <<rt, is_realtime_processing_active, vad_processor, realtime_settings,
                   last_loaded, _stream, _is_streaming, process_audio_chunk_callback,
                   hw, cb>>
    /\ UNCHANGED chunk

\* load_resources line 159-161: _load_hubert
LoadHubert(t) ==
    /\ ctl[t].pc = "l_hubert"
    /\ \E ok \in BOOLEAN :
          /\ rt' = load_hubert_state(rt, ctl[t].args.embedder, ok)
          /\ IF load_hubert_result(rt, ctl[t].args.embedder, ok)
               THEN Goto(t, "l_rvc")
             ELSE GotoFlag(t, "s_after", FALSE)
    /\ UNCHANGED <<is_realtime_processing_active, vad_processor, realtime_settings,
                   last_loaded, _stream, _is_streaming, process_audio_chunk_callback,
                   hw, cb>>
    /\ UNCHANGED chunk

\* load_resources line 163-165: _load_rvc_model
LoadRvc(t) ==
    /\ ctl[t].pc = "l_rvc"
    /\ \E out \in RvcOutcomes :
          /\ rt' = load_rvc_state(rt, ctl[t].args.model_path, ctl[t].args.sid, out)
          /\ IF load_rvc_result(rt, ctl[t].args.model_path, ctl[t].args.sid, out)
               THEN Goto(t, "l_index")
             ELSE GotoFlag(t, "s_after", FALSE)
    /\ UNCHANGED <<is_realtime_processing_active, vad_processor, realtime_settings,
                   last_loaded, _stream, _is_streaming, process_audio_chunk_callback,
                   hw, cb>>
    /\ UNCHANGED chunk

\* load_resources line 167-173: _load_index
LoadIndex(t) ==
    /\ ctl[t].pc = "l_index"
    /\ \E out \in IndexOutcomes :
          /\ rt' = load_index_state(rt, ctl[t].args.index_path, out)
          /\ GotoFlag(t, "s_after",
                      load_index_result(rt, ctl[t].args.index_path, out))
    /\ UNCHANGED <<is_realtime_processing_active, vad_processor, realtime_settings,
                   last_loaded, _stream, _is_streaming, process_audio_chunk_callback,
                   hw, cb>>
    /\ UNCHANGED chunk

\* lines 198-206: a failed load returns; a successful one records the tuple
StartAfterLoad(t) ==
    /\ ctl[t].pc = "s_after"
    /\ IF ~ctl[t].flag
         THEN /\ Return(t, "load_failed")
              /\ UNCHANGED last_loaded
       ELSE /\ last_loaded' = [model_path |-> ctl[t].args.model_path,
                               index_path |-> norm_index(ctl[t].args.index_path),
                               sid |-> ctl[t].args.sid,
                               embedder |-> ctl[t].args.embedder]
            /\ Goto(t, "s_ready")
    /\ UNCHANGED <<rt, is_realtime_processing_active, vad_processor, realtime_settings,
                   _stream, _is_streaming, process_audio_chunk_callback, hw, cb>>
    /\ UNCHANGED chunk

\* lines 211-212
StartReady(t) ==
    /\ ctl[t].pc = "s_ready"
    /\ IF ~is_ready(rt) THEN Return(t, "not_ready") ELSE Goto(t, "s_settings")
    /\ UNCHANGED <<rt, is_realtime_processing_active, vad_processor, realtime_settings,
                   last_loaded, _stream, _is_streaming, process_audio_chunk_callback,
                   hw, cb>>
    /\ UNCHANGED chunk

\* lines 215-237: store the settings, build or drop the VAD processor
\* (VADProcessor(...) may raise), register the processing callback
StartSettings(t) ==
    /\ ctl[t].pc = "s_settings"
    /\ realtime_settings' = [vad_enabled |-> ctl[t].args.vad_enabled,
                             pitch |-> ctl[t].args.pitch]
    /\ IF ctl[t].args.vad_enabled
         THEN \E ok \in BOOLEAN :
                IF ok THEN /\ vad_processor' = Some("VADProcessor")
                           /\ process_audio_chunk_callback' = Some("audio_processing_callback")
                           /\ Goto(t, "st_create")
                ELSE /\ Return(t, "vad_failed")
                     /\ UNCHANGED <<vad_processor, process_audio_chunk_callback>>
       ELSE /\ vad_processor' = None
            /\ process_audio_chunk_callback' = Some("audio_processing_callback")
            /\ Goto(t, "st_create")
    /\ UNCHANGED <<rt, is_realtime_processing_active, last_loaded, _stream,
                   _is_streaming, hw, cb>>
    /\ UNCHANGED chunk

\* sd.Stream(...) returns a new stream object: the first unused id names it
\* (0 when MaxStreams objects are in use)
FreeStreams(h) == {s \in StreamIds : h[s] = "free"}
FreshStream(h) ==
    IF FreeStreams(h) = {} THEN 0
    ELSE CHOOSE s \in FreeStreams(h) : \A u \in FreeStreams(h) : s <= u

\* start_audio_stream lines 67-101: flag test, device lookup, sd.Stream(...)
StreamCreate(t) ==
    /\ ctl[t].pc = "st_create"
    /\ IF _is_streaming
         THEN /\ GotoFlag(t, "s_active", FALSE)
              /\ UNCHANGED <<_stream, _is_streaming, hw>>
       ELSE \/ \E s \in StreamIds :
                 /\ s = FreshStream(Release(hw, _stream))
                 /\ hw' = [Release(hw, _stream) EXCEPT ![s] = "created"]
                 /\ _stream' = Some(s)
                 /\ Goto(t, "st_start")
                 /\ UNCHANGED _is_streaming
            \/ \* get_device_info returned None: return False
               /\ GotoFlag(t, "s_active", FALSE)
               /\ UNCHANGED <<_stream, _is_streaming, hw>>
            \/ \* sd.Stream(...) raised: lines 106-111
               /\ _is_streaming' = FALSE
               /\ GotoFlag(t, "s_active", FALSE)
               /\ UNCHANGED <<_stream, hw>>
    /\ UNCHANGED <<rt, is_realtime_processing_active, vad_processor, realtime_settings,
                   last_loaded, process_audio_chunk_callback, cb>>
    /\ UNCHANGED chunk

\* start_audio_stream line 102: _stream.start() on whatever _stream now names
StreamStart(t) ==
    /\ ctl[t].pc = "st_start"
    /\ IF _stream = None \/ (_stream # None /\ hw[Val(_stream)] = "active")
         THEN \* AttributeError on None, or the transport refuses a running stream
              /\ _is_streaming' = FALSE
              /\ GotoFlag(t, "s_active", FALSE)
              /\ UNCHANGED hw
       ELSE \/ /\ hw' = [hw EXCEPT ![Val(_stream)] = "active"]
               /\ Goto(t, "st_flag")
               /\ UNCHANGED _is_streaming
            \/ \* the transport failed to start the stream
               /\ _is_streaming' = FALSE
               /\ GotoFlag(t, "s_active", FALSE)
               /\ UNCHANGED hw
    /\ UNCHANGED <<rt, is_realtime_processing_active, vad_processor, realtime_settings,
                   last_loaded, _stream, process_audio_chunk_callback, cb>>
    /\ UNCHANGED chunk

\* start_audio_stream lines 103-105
StreamFlag(t) ==
    /\ ctl[t].pc = "st_flag"
    /\ _is_streaming' = TRUE
    /\ GotoFlag(t, "s_active", TRUE)
    /\ UNCHANGED <<rt, is_realtime_processing_active, vad_processor, realtime_settings,
                   last_loaded, _stream, process_audio_chunk_callback, hw, cb>>
    /\ UNCHANGED chunk

\* variant of lines 239-244 that marks processing active whatever
\* start_audio_stream returned
active_after_stream_always(started) == TRUE

\* lines 239-244: the processing-active flag follows the stream result
active_after_stream(started) == started

StartActive(t) ==
    /\ ctl[t].pc = "s_active"
    /\ is_realtime_processing_active' = active_after_stream(ctl[t].flag)
    /\ Return(t, IF ctl[t].flag THEN "started" ELSE "stream_failed")
    /\ UNCHANGED <<rt, vad_processor, realtime_settings, last_loaded, _stream,
                   _is_streaming, process_audio_chunk_callback, hw, cb>>
    /\ UNCHANGED chunk


(* -------------------- stop_realtime_conversion ------------------------- *)

\* a UI worker thread calls stop_realtime_conversion(): line 249
StopCheck(t) ==
    /\ ctl[t].pc = "idle"
    /\ ctl' = [ctl EXCEPT ![t] = [CtlIdle EXCEPT !.op = "stop",
                                    !.pc = IF _is_streaming THEN "sp_halt" ELSE "p_active"]]
    /\ UNCHANGED <<rt, is_realtime_processing_active, vad_processor, realtime_settings,
                   last_loaded, _stream, _is_streaming, process_audio_chunk_callback,
                   hw, cb>>
    /\ UNCHANGED chunk

\* the transport's stop() returns only when no callback of that stream is running
CallbackQuiet(s) == cb.pc \in {"idle", "done"} \/ cb.stream # s

\* stop_audio_stream lines 116-119: _stream.stop(); _stream.close()
\* flag' = TRUE iff both calls returned
StopHalt(t) ==
    /\ ctl[t].pc = "sp_halt"
    /\ IF _stream # None /\ _is_streaming
         THEN \/ /\ CallbackQuiet(_stream)
                 /\ hw' = [hw EXCEPT ![Val(_stream)] = "free"]
                 /\ GotoFlag(t, "sp_fin", TRUE)
              \/ \* stop() raised: the stream may or may not have halted
                 /\ \/ UNCHANGED hw
                    \/ /\ CallbackQuiet(_stream)
                       /\ hw' = [hw EXCEPT ![Val(_stream)] = "stopped"]
                 /\ GotoFlag(t, "sp_fin", FALSE)
              \/ \* stop() returned, close() raised
                 /\ CallbackQuiet(_stream)
                 /\ hw' = [hw EXCEPT ![Val(_stream)] = "stopped"]
                 /\ GotoFlag(t, "sp_fin", FALSE)
       ELSE /\ GotoFlag(t, "sp_fin", FALSE)
            /\ UNCHANGED hw
    /\ UNCHANGED <<rt, is_realtime_processing_active, vad_processor, realtime_settings,
                   last_loaded, _stream, _is_streaming, process_audio_chunk_callback, cb>>
    /\ UNCHANGED chunk

\* stop_audio_stream lines 120-128: the flag is cleared only when nothing
\* raised; the handle is always dropped
StopFin(t) ==
    /\ ctl[t].pc = "sp_fin"
    /\ _is_streaming' = IF ctl[t].flag THEN FALSE ELSE _is_streaming
    /\ _stream' = None
    /\ hw' = Release(hw, _stream)
    /\ Goto(t, "p_active")
    /\ UNCHANGED <<rt, is_realtime_processing_active, vad_processor, realtime_settings,
                   last_loaded, process_audio_chunk_callback, cb>>
    /\ UNCHANGED chunk

\* lines 251-254
StopActive(t) ==
    /\ ctl[t].pc = "p_active"
    /\ is_realtime_processing_active' = FALSE
    /\ Return(t, "stopped")
    /\ UNCHANGED <<rt, vad_processor, realtime_settings, last_loaded, _stream,
                   _is_streaming, process_audio_chunk_callback, hw, cb>>
    /\ UNCHANGED chunk


(* ===================== the audio callback (device thread) =============== *)

\* names bound in audio_processing_callback, and module-level names of realtime.py
callback_locals ==
    {"mic_chunk_float32", "mic_chunk_16khz", "vad_active", "processed_16khz_chunk",
     "is_speech", "e", "output_chunk_stream_sr", "target_len", "current_len"}

module_globals ==
    {"gr", "np", "librosa", "os", "sys", "rt_converter", "vad_processor",
     "is_realtime_processing_active", "realtime_settings", "resample_input_buffer",
     "resample_output_buffer", "REALTIME_STREAM_SAMPLE_RATE", "REALTIME_CHUNK_SIZE",
     "HUBERT_SAMPLE_RATE"}

\* the name whose .shape line 143 compares the output block against
shape_test_name == "mic_chunk_float_32"

\* evaluating an unbound name raises NameError
name_resolves(n) == n \in callback_locals \cup module_globals

\* variant of the line-79 test that needs both conditions to fail
callback_gate_silent_both(ready, active) == ~ready /\ ~active

\* line 79: silence unless the session is ready and processing is active
callback_gate_silent(ready, active) == ~ready \/ ~active

\* lines 143-159: pad or truncate to the input length, replicate mono
pad_or_truncate(shape, target_len) ==
    IF shape[1] < target_len
      THEN [i \in 1..Len(shape) |-> shape[i] + (target_len - shape[1])]
    ELSE IF shape[1] > target_len
      THEN [i \in 1..Len(shape) |-> IF i = 1 THEN target_len ELSE shape[i]]
    ELSE shape

reconcile(out, mic) ==
    IF out.shape = mic.shape THEN out
    ELSE LET sh == pad_or_truncate(out.shape, mic.shape[1]) IN
         IF Len(mic.shape) > 1 /\ Len(sh) = 1
           THEN Block(out.kind, <<sh[1], mic.shape[2]>>)
         ELSE Block(out.kind, sh)

\* length of the waveform process_chunk returns for a 1024-sample block:
\* about input length * tgt_sr / 16000 (the generator decides the exact length)
ChunkOutLens(tgt_sr) ==
    LET e == (REALTIME_CHUNK_SIZE * tgt_sr) \div HUBERT_SAMPLE_RATE IN {e - 1, e}

CbIdle ==
    [pc |-> "idle", stream |-> None, ready |-> FALSE, active |-> FALSE,
     gated |-> FALSE, vad |-> "none", cp |-> "none", mic16 |-> None,
     processed |-> None, exc |-> "none", caught |-> {}, escaped |-> FALSE,
     written |-> 0, out |-> None, after_stop |-> FALSE]

\* audio_callback lines 39-43: copy a block of the right shape, else silence
deliver(ret) ==
    IF ret # None /\ Val(ret).shape = outdata_shape THEN ret
    ELSE Some(Block("zeros", outdata_shape))

\* variant of audio_callback without its try/except
audio_callback_propagates == FALSE

\* audio_callback lines 44-48: the handler around the processing callback
audio_callback_catches == TRUE

\* the processing callback returned ret to audio_callback
CbReturn(c, ret) ==
    [c EXCEPT !.pc = "done", !.stream = None, !.mic16 = None, !.processed = None,
              !.out = deliver(ret), !.written = c.written + 1]

\* the processing callback raised exc into audio_callback
CbRaise(c, exc) ==
    IF audio_callback_catches
      THEN [c EXCEPT !.pc = "done", !.stream = None, !.mic16 = None, !.processed = None,
                     !.exc = exc, !.caught = c.caught \cup {"audio_callback"},
                     !.out = Some(Block("zeros", outdata_shape)), !.written = c.written + 1]
    ELSE [c EXCEPT !.pc = "done", !.stream = None, !.mic16 = None, !.processed = None,
                   !.exc = exc, !.escaped = TRUE]

\* observation: a stop call has been made and no start call has been made since
StopRequested == \E t \in Ctl : ctl[t].op = "stop"

\* audio_callback lines 28-36, 49-50: the device calls back for a running stream
CbBegin ==
    /\ cb.pc \in {"idle", "done"}
    /\ \E s \in StreamIds :
          /\ hw[s] = "active"
          /\ IF process_audio_chunk_callback = None
               THEN cb' = [CbIdle EXCEPT !.pc = "done",
                                         !.out = Some(Block("zeros", outdata_shape)),
                                         !.written = 1,
                                         !.after_stop = StopRequested]
             ELSE cb' = [CbIdle EXCEPT !.pc = "cb_gate", !.stream = Some(s),
                                       !.after_stop = StopRequested]
    /\ UNCHANGED <<rt, is_realtime_processing_active, vad_processor, realtime_settings,
                   last_loaded, _stream, _is_streaming, process_audio_chunk_callback,
                   hw, ctl>>
    /\ UNCHANGED chunk

\* audio_processing_callback lines 79-90: the gate, then the input resample
CbGate ==
    /\ cb.pc = "cb_gate"
    /\ LET c == [cb EXCEPT !.ready = is_ready(rt),
                           !.active = is_realtime_processing_active] IN
       IF callback_gate_silent(is_ready(rt), is_realtime_processing_active)
         THEN cb' = CbReturn([c EXCEPT !.gated = TRUE], Some(zeros_like(indata)))
       ELSE \/ cb' = [c EXCEPT !.pc = "cb_vad",
                               !.mic16 = Some(resample(indata, REALTIME_STREAM_SAMPLE_RATE,
                                                       HUBERT_SAMPLE_RATE))]
            \/ cb' = CbRaise(c, "ResampleError")
    /\ UNCHANGED <<rt, is_realtime_processing_active, vad_processor, realtime_settings,
                   last_loaded, _stream, _is_streaming, process_audio_chunk_callback,
                   hw, ctl>>
    /\ UNCHANGED chunk

\* variant of lines 99-101 that records the decision and silences nothing
on_vad_silence_ignored(c) == [c EXCEPT !.pc = "cb_rvc", !.vad = "silence"]

\* lines 99-101: no speech: silence at the shape of the 16 kHz block
on_vad_silence(c) ==
    [c EXCEPT !.pc = "cb_rvc", !.vad = "silence",
              !.processed = Some(zeros_like(Val(c.mic16)))]

\* variant of lines 103-106 that silences the block when the gate raises
on_vad_error_silences(c) ==
    [c EXCEPT !.pc = "cb_rvc", !.vad = "error", !.caught = c.caught \cup {"vad"},
              !.processed = Some(zeros_like(Val(c.mic16)))]

\* lines 103-106: the gate raised: the exception is swallowed and the
\* processed block stays unset
on_vad_error(c) ==
    [c EXCEPT !.pc = "cb_rvc", !.vad = "error", !.caught = c.caught \cup {"vad"}]

\* lines 92-106: the VAD gate; a gate error falls through to processing
CbVad ==
    /\ cb.pc = "cb_vad"
    /\ IF realtime_settings.vad_enabled /\ vad_processor # None
         THEN \/ cb' = [cb EXCEPT !.pc = "cb_rvc", !.vad = "speech"]
              \/ cb' = on_vad_silence(cb)
              \/ cb' = on_vad_error(cb)
       ELSE cb' = [cb EXCEPT !.pc = "cb_rvc"]
    /\ UNCHANGED <<rt, is_realtime_processing_active, vad_processor, realtime_settings,
                   last_loaded, _stream, _is_streaming, process_audio_chunk_callback,
                   hw, ctl>>
    /\ UNCHANGED chunk

\* variant of lines 109-126 without the try/except around process_chunk
on_chunk_error_unhandled(c) == CbRaise(c, "ProcessingError")

\* lines 122-126: process_chunk raised; the handler substitutes silence at
\* the shape of the 16 kHz block and processing goes on
on_chunk_error(c) ==
    [c EXCEPT !.pc = "cb_out", !.caught = c.caught \cup {"rvc"},
              !.processed = Some(zeros_like(Val(c.mic16)))]

\* lines 108-126: process_chunk unless gated silent; silence if it raises.
\* process_chunk itself returns zeros_like(input) when the session is not ready.
CbRvc ==
    /\ cb.pc = "cb_rvc"
    /\ IF cb.processed = None
         THEN IF ~is_ready(rt)
                THEN cb' = [cb EXCEPT !.pc = "cb_out", !.cp = "not_ready",
                                      !.processed = Some(zeros_like(Val(cb.mic16)))]
              ELSE \/ \E n \in ChunkOutLens(Val(rt.tgt_sr)) :
                        cb' = [cb EXCEPT !.pc = "cb_out", !.cp = "ok",
                                         !.processed = Some(Block("converted", <<n>>))]
                   \/ cb' = on_chunk_error([cb EXCEPT !.cp = "raise"])
       ELSE cb' = [cb EXCEPT !.pc = "cb_out"]
    /\ UNCHANGED <<rt, is_realtime_processing_active, vad_processor, realtime_settings,
                   last_loaded, _stream, _is_streaming, process_audio_chunk_callback,
                   hw, ctl>>
    /\ UNCHANGED chunk

\* lines 131-159: resample to the device rate, reconcile the shape, return
CbOut ==
    /\ cb.pc = "cb_out"
    /\ IF rt.tgt_sr = None
         THEN cb' = CbReturn(cb, Some(zeros_like(indata)))
       ELSE \/ cb' = CbRaise(cb, "ResampleError")
            \/ IF ~name_resolves(shape_test_name)
                 THEN cb' = CbRaise(cb, "NameError")
               ELSE cb' = CbReturn(cb,
                            Some(reconcile(resample(Val(cb.processed), Val(rt.tgt_sr),
                                                    REALTIME_STREAM_SAMPLE_RATE),
                                           indata)))
    /\ UNCHANGED <<rt, is_realtime_processing_active, vad_processor, realtime_settings,
                   last_loaded, _stream, _is_streaming, process_audio_chunk_callback,
                   hw, ctl>>
    /\ UNCHANGED chunk

(* ================= process_chunk: one block through the converter ======= *)

\* fields of the shared VC pipeline object the chunk processor reads
x_pad == 1                          \* context seconds on each side of the block
window == 160                       \* samples of 16 kHz audio per analysis frame
f0_min == 50                        \* Hz
f0_max == 1100                      \* Hz
t_pad == HUBERT_SAMPLE_RATE * x_pad
t_pad_tgt(tgt_sr) == tgt_sr * x_pad

\* Pitch is kept in quarter-Hz units so that an octave shift and a half-strength
\* autotune stay exact.
QHz == 4

\* 100 * 1127 * ln(1 + f/700), rounded, for the positive pitch values the
\* bounded inputs can produce (q is in quarter Hz)
mel_c(q) ==
    CASE q = 10 -> 402 [] q = 20 -> 802 [] q = 40 -> 1599 [] q = 80 -> 3175
      [] q = 110 -> 4343 [] q = 130 -> 5115 [] q = 160 -> 6263 [] q = 200 -> 7775
      [] q = 220 -> 8524 [] q = 260 -> 10007 [] q = 440 -> 16449
      [] q = 520 -> 19198 [] q = 880 -> 30800 [] q = 1760 -> 54964
      [] q = 3520 -> 91749 [] q = 4400 -> 106441 [] q = 4880 -> 113714
      [] q = 7040 -> 141645 [] q = 8000 -> 152137 [] q = 9760 -> 169151
      [] q = 16000 -> 214608 [] q = 19520 -> 233950 [] q = 32000 -> 284004

f0_mel_min == mel_c(f0_min * QHz)
f0_mel_max == mel_c(f0_max * QHz)

\* lines 191-203: the flattened block is reflect-padded by t_pad on each side
padded_len(n) == n + 2 * t_pad
p_len(n) == padded_len(n) \div window

\* line 239: the factor pow(2, pitch_change / 12) as a ratio
PitchChanges == {-12, 0, 12}
pow2(pitch_change) ==
    CASE pitch_change = -12 -> <<1, 2>>
      [] pitch_change = 0   -> <<1, 1>>
      [] pitch_change = 12  -> <<2, 1>>
shift(q, pitch_change) == (q * pow2(pitch_change)[1]) \div pow2(pitch_change)[2]

\* the autotune pass: each value is pulled toward the nearest note of the
\* grid by the given strength (percent)
NoteGrid == {110 * QHz, 220 * QHz, 440 * QHz, 880 * QHz}
Dist(a, b) == IF a >= b THEN a - b ELSE b - a
nearest_note(q) ==
    CHOOSE m \in NoteGrid :
        \A k \in NoteGrid : Dist(m, q) < Dist(k, q) \/ (Dist(m, q) = Dist(k, q) /\ m <= k)
autotune_f0(q, strength) == q + ((nearest_note(q) - q) * strength) \div 100

\* what astype(int) may leave for a NaN: the minimum integer on x86 builds,
\* zero on others
NanCasts == {0, -2147483647 - 1}

\* lines 242-246 for one value: mel scale, rescale of the positive values,
\* clamps at 1 and 255, rint, integer cast. The log of a negative argument is
\* NaN, which passes both clamps; the log of zero is -inf, which the lower
\* clamp catches.
f0_course_of(q, nan_cast) ==
    IF 700 * QHz + q < 0 THEN nan_cast
    ELSE IF q <= 0 THEN 1
    ELSE LET D == f0_mel_max - f0_mel_min
             N == (mel_c(q) - f0_mel_min) * 254 + D
         IN  IF N <= D THEN 1
             ELSE IF N > 255 * D THEN 255
             ELSE (2 * N + D) \div (2 * D)

\* pitch curves a predictor may hand back (quarter Hz): a cycle through
\* these values, so that voiced, silent and negative frames all occur
F0Any == <<-1000 * QHz, -700 * QHz, -100 * QHz, 0, 20 * QHz, 440 * QHz, 4000 * QHz>>
F0NonNeg == <<0, 20 * QHz, 440 * QHz, 4000 * QHz>>
TrackKinds == {"any", "nonneg", "silent"}
Cycle(vals, L) == [i \in 1..L |-> vals[((i - 1) % Len(vals)) + 1]]
zeros(L) == [i \in 1..L |-> 0]
track(kind, L) ==
    CASE kind = "any"    -> Cycle(F0Any, L)
      [] kind = "nonneg" -> Cycle(F0NonNeg, L)
      [] kind = "silent" -> zeros(L)

\* lines 213-232: which branch computes the fine pitch
f0_path(f0_method, rmvpe_loaded) ==
    IF f0_method = "rmvpe" /\ rmvpe_loaded THEN "rmvpe"
    ELSE IF f0_method = "fcpe" THEN "fcpe"
    ELSE "fallback"

\* lines 235-239 on a whole curve: the passes applied, in the order applied
f0_passes(autotune) == IF autotune THEN <<"autotune", "shift">> ELSE <<"shift">>
apply_pass(name, f, pitch_change, strength) ==
    IF name = "autotune" THEN [i \in DOMAIN f |-> autotune_f0(f[i], strength)]
    ELSE [i \in DOMAIN f |-> shift(f[i], pitch_change)]
RECURSIVE apply_passes(_, _, _, _)
apply_passes(ps, f, pitch_change, strength) ==
    IF ps = <<>> THEN f
    ELSE apply_passes(Tail(ps), apply_pass(Head(ps), f, pitch_change, strength),
                      pitch_change, strength)

f0_course(fine, nan_cast) == [i \in DOMAIN fine |-> f0_course_of(fine[i], nan_cast)]

Min(a, b) == IF a <= b THEN a ELSE b
\* tensor[:, :k]
Take(s, k) == SubSeq(s, 1, Min(Len(s), k))

\* line 273: a copy of the features is kept for protection (protect_val in percent)
keeps_protection_copy(use_f0, protect_val) == use_f0 /\ protect_val < 50

\* variant of line 301 that leaves frames of exactly zero pitch alone
pitchff_unvoiced_negative_only(fine, pitchff, protect_val) ==
    [i \in DOMAIN fine |-> IF fine[i] < 0 THEN protect_val ELSE pitchff[i]]

\* line 300: pitchff[f0_fine_tensor > 0] = 1  (mask values in percent)
pitchff_voiced(fine, pitchff) ==
    [i \in DOMAIN fine |-> IF fine[i] > 0 THEN 100 ELSE pitchff[i]]
\* line 301: pitchff[f0_fine_tensor <= 0] = protect_val
pitchff_unvoiced(fine, pitchff, protect_val) ==
    [i \in DOMAIN fine |-> IF fine[i] <= 0 THEN protect_val ELSE pitchff[i]]
\* lines 299-303
current_protect_mask(fine, protect_val, feats_len) ==
    Take(pitchff_unvoiced(fine, pitchff_voiced(fine, fine), protect_val), feats_len)
\* line 304: the mask's frame axis must equal the features' or be 1
broadcasts(mask_len, feats_len) == mask_len = feats_len \/ mask_len = 1

Audio(kind, len, skip) == [kind |-> kind, len |-> len, skip |-> skip, pad |-> 0, scaled |-> FALSE]
NoAudio == Audio("none", 0, 0)

\* process_chunk line 353: the output length expected for an n-sample block
expected_out_len(n, tgt_sr) == (n * tgt_sr) \div HUBERT_SAMPLE_RATE

\* variant of lines 345-358 that slices whatever the raw length is
trim_always_slices(raw_len, n, tgt_sr) ==
    IF raw_len > 2 * t_pad_tgt(tgt_sr)
      THEN Audio("raw", raw_len - 2 * t_pad_tgt(tgt_sr), t_pad_tgt(tgt_sr))
    ELSE Audio("raw", 0, t_pad_tgt(tgt_sr))

\* lines 342-358
trim(raw_len, n, tgt_sr) ==
    IF raw_len > 2 * t_pad_tgt(tgt_sr)
      THEN Audio("raw", raw_len - 2 * t_pad_tgt(tgt_sr), t_pad_tgt(tgt_sr))
    ELSE IF 2 * raw_len < expected_out_len(n, tgt_sr)
      THEN Audio("zeros", expected_out_len(n, tgt_sr), 0)
    ELSE Audio("raw", raw_len, 0)

\* lines 362-390: with a mix below 1 the block is padded or cut to the length
\* of the resampled input before the RMS match
envelope(a, n, tgt_sr, mix) ==
    IF mix < 100 /\ mix >= 0
      THEN LET target_len == IF tgt_sr # HUBERT_SAMPLE_RATE
                               THEN resample_len(n, HUBERT_SAMPLE_RATE, tgt_sr)
                             ELSE n
           IN  IF a.len < target_len
                 THEN [a EXCEPT !.len = target_len, !.pad = target_len - a.len]
               ELSE [a EXCEPT !.len = target_len]
    ELSE a

\* lines 393-395: divide by the peak when it exceeds 0.99
normalize(a, peak_over) == [a EXCEPT !.scaled = peak_over]

ChunkIdle ==
    [pc |-> "idle", n |-> 0, tgt_sr |-> 0, use_f0 |-> FALSE,
     f0_method |-> "rmvpe", rmvpe |-> FALSE, pitch_change |-> 0,
     f0_autotune |-> FALSE, strength |-> 0, protect_val |-> 0, mix |-> 100,
     p_len |-> 0, path |-> "none", raw |-> <<>>, passes |-> <<>>,
     fine |-> <<>>, course |-> <<>>, feats_len |-> 0, gen_p_len |-> 0,
     keep |-> FALSE, mask |-> <<>>, blended |-> FALSE, raw_len |-> 0,
     trimmed |-> NoAudio, out |-> NoAudio, exc |-> "none"]

(* ============================ specification ============================ *)

Init ==
    /\ rt = ConverterInit
    /\ is_realtime_processing_active = FALSE
    /\ vad_processor = None
    /\ realtime_settings = DefaultSettings
    /\ last_loaded = [model_path |-> "", index_path |-> "", sid |-> -1, embedder |-> ""]
    /\ _stream = None
    /\ _is_streaming = FALSE
    /\ process_audio_chunk_callback = None
    /\ hw = [s \in StreamIds |-> "free"]
    /\ ctl = [t \in Ctl |-> CtlIdle]
    /\ cb = CbIdle
    /\ chunk = ChunkIdle

\* one control thread: start and stop calls never overlap each other
OneThread == {1}

Next ==
    \/ \E t \in OneThread : StartCheck(t, StartArgs)
    \/ \E t \in OneThread : StartCompare(t)
    \/ \E t \in OneThread : LoadHubert(t)
    \/ \E t \in OneThread : LoadRvc(t)
    \/ \E t \in OneThread : LoadIndex(t)
    \/ \E t \in OneThread : StartAfterLoad(t)
    \/ \E t \in OneThread : StartReady(t)
    \/ \E t \in OneThread : StartSettings(t)
    \/ \E t \in OneThread : StreamCreate(t)
    \/ \E t \in OneThread : StreamStart(t)
    \/ \E t \in OneThread : StreamFlag(t)
    \/ \E t \in OneThread : StartActive(t)
    \/ \E t \in OneThread : StopCheck(t)
    \/ \E t \in OneThread : StopHalt(t)
    \/ \E t \in OneThread : StopFin(t)
    \/ \E t \in OneThread : StopActive(t)
    \/ CbBegin
    \/ CbGate
    \/ CbVad
    \/ CbRvc
    \/ CbOut

Spec == Init /\ [][Next]_vars


(* ---------------- two overlapping control threads ---------------------- *)
\* start/stop handlers take no lock, so two UI worker threads may run them at
\* the same time: both threads call start, thread 1 also calls stop.  The
\* arguments are kept few: two models, no index, no VAD
RaceArgs ==
    [model_path : {"m1", "m2"}, index_path : {""}, sid : SidValues,
     embedder : {"contentvec"}, vad_enabled : {FALSE}, pitch : {0},
     valid : {TRUE}]

NextRace ==
    \/ \E t \in Ctl : StartCheck(t, RaceArgs)
    \/ \E t \in Ctl : StartCompare(t)
    \/ \E t \in Ctl : LoadHubert(t)
    \/ \E t \in Ctl : LoadRvc(t)
    \/ \E t \in Ctl : LoadIndex(t)
    \/ \E t \in Ctl : StartAfterLoad(t)
    \/ \E t \in Ctl : StartReady(t)
    \/ \E t \in Ctl : StartSettings(t)
    \/ \E t \in Ctl : StreamCreate(t)
    \/ \E t \in Ctl : StreamStart(t)
    \/ \E t \in Ctl : StreamFlag(t)
    \/ \E t \in Ctl : StartActive(t)
    \/ \E t \in OneThread : StopCheck(t)
    \/ \E t \in OneThread : StopHalt(t)
    \/ \E t \in OneThread : StopFin(t)
    \/ \E t \in OneThread : StopActive(t)
    \/ CbBegin
    \/ CbGate
    \/ CbVad
    \/ CbRvc
    \/ CbOut

SpecRace == Init /\ [][NextRace]_vars

(* ------------- the resource session's operations on their own ---------- *)
\* Each load operation of RealtimeVoiceConverter called directly, one call
\* per step; ctl[1] records the call just made (op, args) and what it
\* returned (flag, status).
LoadIndexPaths == {"", "i1"}
LoadSids == {0, 1}

LoadOutcomes ==
    [hubert : BOOLEAN, rvc : RvcOutcomes, index : IndexOutcomes]

\* the f-strings of lines 165 and 170
msg_rvc_failed(path) == "Failed to load RVC model from " \o path \o "."
msg_index_failed(ipath) == "Failed to load Index file from " \o ipath \o "."

\* load_resources: (success, message)
load_resources_result(c, path, ipath, s, name, o) ==
    IF path = "" THEN <<FALSE, "RVC Model path is required.">>
    ELSE IF ~load_hubert_result(c, name, o.hubert)
      THEN <<FALSE, "Failed to load Hubert model.">>
    ELSE LET c1 == load_hubert_state(c, name, o.hubert) IN
         IF ~load_rvc_result(c1, path, s, o.rvc)
           THEN <<FALSE, msg_rvc_failed(path)>>
         ELSE LET c2 == load_rvc_state(c1, path, s, o.rvc) IN
              IF ~load_index_result(c2, ipath, o.index) /\ ipath # ""
                THEN <<FALSE, msg_index_failed(ipath)>>
              ELSE <<TRUE, "Models loaded successfully.">>

\* the load steps load_resources calls, in call order (lines 159, 163, 167)
load_resources_steps(c, path, ipath, s, name, o) ==
    IF path = "" THEN <<>>
    ELSE IF ~load_hubert_result(c, name, o.hubert) THEN <<"hubert">>
    ELSE IF ~load_rvc_result(load_hubert_state(c, name, o.hubert), path, s, o.rvc)
      THEN <<"hubert", "rvc">>
    ELSE <<"hubert", "rvc", "index">>

\* the steps that went past their already-loaded test into the heavy call
\* (load_embedding line 62, torch.load line 81, faiss.read_index line 142)
load_index_heavy(c, ipath, out) ==
    ~load_index_clears(ipath, out) /\ ~load_index_skips(c, ipath)

load_resources_heavy(c, path, ipath, s, name, o) ==
    LET st == load_resources_steps(c, path, ipath, s, name, o)
        c1 == load_hubert_state(c, name, o.hubert)
        c2 == load_rvc_state(c1, path, s, o.rvc) IN
    {x \in {"hubert"} : Len(st) >= 1 /\ ~load_hubert_skips(c, name)}
      \cup {x \in {"rvc"} : Len(st) >= 2 /\ ~load_rvc_skips(c1, path, s)}
      \cup {x \in {"index"} : Len(st) >= 3 /\ load_index_heavy(c2, ipath, o.index)}

\* what os.path.exists / faiss.read_index found for a non-empty index path
index_seen(ipath, out) == IF ipath = "" THEN "none" ELSE out

Called(op, a, ok, st, steps, heavy, iout) ==
    ctl' = [ctl EXCEPT ![1] = [pc |-> "idle", op |-> op, args |-> a, flag |-> ok,
                               status |-> st, steps |-> steps, heavy |-> heavy,
                               iout |-> iout,
                               rep |-> (ctl[1].op = op /\ ctl[1].args = a
                                          /\ ctl[1].flag)]]

OpLoadHubert ==
    /\ \E name \in EmbedderNames, ok \in BOOLEAN :
          /\ rt' = load_hubert_state(rt, name, ok)
          /\ Called("_load_hubert", [NoArgs EXCEPT !.embedder = name],
                    load_hubert_result(rt, name, ok), "none", <<"hubert">>,
                    {x \in {"hubert"} : ~load_hubert_skips(rt, name)}, "none")
    /\ UNCHANGED <<is_realtime_processing_active, vad_processor, realtime_settings,
                   last_loaded, _stream, _is_streaming, process_audio_chunk_callback,
                   hw, cb>>
    /\ UNCHANGED chunk

OpLoadRvc ==
    /\ \E path \in ModelPaths \ {""}, s \in LoadSids, out \in RvcOutcomes :
          /\ rt' = load_rvc_state(rt, path, s, out)
          /\ Called("_load_rvc_model", [NoArgs EXCEPT !.model_path = path, !.sid = s],
                    load_rvc_result(rt, path, s, out), "none", <<"rvc">>,
                    {x \in {"rvc"} : ~load_rvc_skips(rt, path, s)}, "none")
    /\ UNCHANGED <<is_realtime_processing_active, vad_processor, realtime_settings,
                   last_loaded, _stream, _is_streaming, process_audio_chunk_callback,
                   hw, cb>>
    /\ UNCHANGED chunk

OpLoadIndex ==
    /\ \E ipath \in LoadIndexPaths, out \in IndexOutcomes :
          /\ rt' = load_index_state(rt, ipath, out)
          /\ Called("_load_index", [NoArgs EXCEPT !.index_path = ipath],
                    load_index_result(rt, ipath, out), "none", <<"index">>,
                    {x \in {"index"} : load_index_heavy(rt, ipath, out)},
                    index_seen(ipath, out))
    /\ UNCHANGED <<is_realtime_processing_active, vad_processor, realtime_settings,
                   last_loaded, _stream, _is_streaming, process_audio_chunk_callback,
                   hw, cb>>
    /\ UNCHANGED chunk

OpLoadResources ==
    /\ \E path \in ModelPaths, ipath \in LoadIndexPaths, s \in LoadSids,
          name \in EmbedderNames, o \in LoadOutcomes :
          /\ rt' = load_resources_state(rt, path, ipath, s, name, o)
          /\ Called("load_resources",
                    [NoArgs EXCEPT !.model_path = path, !.index_path = ipath,
                                   !.sid = s, !.embedder = name],
                    load_resources_result(rt, path, ipath, s, name, o)[1],
                    load_resources_result(rt, path, ipath, s, name, o)[2],
                    load_resources_steps(rt, path, ipath, s, name, o),
                    load_resources_heavy(rt, path, ipath, s, name, o),
                    IF Len(load_resources_steps(rt, path, ipath, s, name, o)) = 3
                      THEN index_seen(ipath, o.index) ELSE "none")
    /\ UNCHANGED <<is_realtime_processing_active, vad_processor, realtime_settings,
                   last_loaded, _stream, _is_streaming, process_audio_chunk_callback,
                   hw, cb>>
    /\ UNCHANGED chunk

NextLoad ==
    \/ OpLoadHubert
    \/ OpLoadRvc
    \/ OpLoadIndex
    \/ OpLoadResources

SpecLoad == Init /\ [][NextLoad]_vars

(* ============= specification of process_chunk on its own =============== *)
\* A session is loaded once, then blocks are processed one after another.
\* Each step of process_chunk is one action; what the predictor, the
\* embedder and the generator hand back is drawn from the sets below.
ChunkLens == {512, 1024}
F0Methods == {"rmvpe", "fcpe", "crepe"}
AutotuneStrengths == {50, 100}            \* percent
ProtectVals == {0, 33, 50}                \* percent
EnvelopeMixes == {50, 100}                \* percent
AllLoadsOk == [hubert |-> TRUE, rvc |-> "ok", index |-> "ok"]

\* frames the predictor returns for a block of p frames
PredLens(p) == {p - 3, p, p + 1}
\* frames the embedder returns: one per 2 * window samples, give or take one
FeatLens(n) ==
    {padded_len(n) \div (2 * window) + d : d \in {-1, 0, 1}}
\* samples of output per frame at the target rate
frame_samples(tgt_sr) == (window * tgt_sr) \div HUBERT_SAMPLE_RATE
\* raw waveform lengths the generator returns: one sample, around half the
\* expected length, around twice the trim width, and one frame's worth of
\* samples per frame asked for
RawLens(n, tgt_sr, g) ==
    {1, expected_out_len(n, tgt_sr) \div 2 - 1, expected_out_len(n, tgt_sr) \div 2,
     2 * t_pad_tgt(tgt_sr), 2 * t_pad_tgt(tgt_sr) + 1, g * frame_samples(tgt_sr)}

ChunkFrame ==
    UNCHANGED <<rt, is_realtime_processing_active, vad_processor, realtime_settings,
                last_loaded, _stream, _is_streaming, process_audio_chunk_callback,
                hw, ctl, cb>>

\* load_resources(model, "", 0, "contentvec") with every load succeeding
PcLoad ==
    /\ chunk.pc = "idle" /\ ~is_ready(rt)
    /\ \E path \in ModelPaths \ {""} :
          rt' = load_resources_state(rt, path, "", 0, "contentvec", AllLoadsOk)
    /\ UNCHANGED <<is_realtime_processing_active, vad_processor, realtime_settings,
                   last_loaded, _stream, _is_streaming, process_audio_chunk_callback,
                   hw, ctl, cb, chunk>>

\* lines 178-203: entry, readiness test, flatten, filter, pad, frame count
PcCall ==
    /\ chunk.pc = "idle"
    /\ \E n \in ChunkLens :
         IF ~is_ready(rt)
           THEN chunk' = [ChunkIdle EXCEPT !.pc = "done", !.n = n,
                                           !.out = Audio("zeros", n, 0)]
         ELSE \E use_f0 \in BOOLEAN :
              \E m \in (IF use_f0 THEN F0Methods ELSE {"rmvpe"}),
                 loaded \in (IF use_f0 THEN BOOLEAN ELSE {FALSE}),
                 pitch_change \in (IF use_f0 THEN PitchChanges ELSE {0}),
                 f0_autotune \in (IF use_f0 THEN BOOLEAN ELSE {FALSE}) :
              \E strength \in (IF f0_autotune THEN AutotuneStrengths ELSE {100}) :
                 chunk' = [ChunkIdle EXCEPT
                             !.pc = "f0", !.n = n, !.tgt_sr = Val(rt.tgt_sr),
                             !.use_f0 = use_f0, !.f0_method = m, !.rmvpe = loaded,
                             !.pitch_change = pitch_change,
                             !.f0_autotune = f0_autotune, !.strength = strength,
                             !.p_len = p_len(n)]
    /\ ChunkFrame

\* lines 205-252: pitch extraction, autotune, shift, coarse buckets
PcPitch ==
    /\ chunk.pc = "f0"
    /\ IF ~chunk.use_f0
         THEN chunk' = [chunk EXCEPT !.pc = "feats"]
       ELSE LET path == f0_path(chunk.f0_method, chunk.rmvpe) IN
            \/ /\ path # "fallback"
               /\ chunk' = [chunk EXCEPT !.pc = "raised", !.path = path,
                                         !.exc = "PredictorError"]
            \/ \E kind \in (IF path = "fallback" THEN {"silent"} ELSE TrackKinds),
                  L \in (IF path = "fallback" THEN {chunk.p_len}
                         ELSE PredLens(chunk.p_len)),
                  nan_cast \in NanCasts :
                  LET raw  == track(kind, L)
                      ps   == f0_passes(chunk.f0_autotune)
                      fine == apply_passes(ps, raw, chunk.pitch_change, chunk.strength)
                  IN  chunk' = [chunk EXCEPT !.pc = "feats", !.path = path,
                                             !.raw = raw, !.passes = ps,
                                             !.fine = fine,
                                             !.course = f0_course(fine, nan_cast)]
    /\ ChunkFrame


\* lines 254-293: embedder features, protection copy, upsampling by 2,
\* generation frame count, pitch sequences cut to it. protect_val is first
\* read here (line 273).
PcFeats ==
    /\ chunk.pc = "feats"
    /\ \E F \in FeatLens(chunk.n),
          protect_val \in (IF chunk.use_f0 THEN ProtectVals ELSE {33}) :
          LET feats_len == 2 * F
              g == Min(feats_len, chunk.p_len)
          IN  chunk' = [chunk EXCEPT
                          !.pc = "protect", !.protect_val = protect_val,
                          !.keep = keeps_protection_copy(chunk.use_f0, protect_val),
                          !.feats_len = feats_len, !.gen_p_len = g,
                          !.fine = Take(chunk.fine, g),
                          !.course = Take(chunk.course, g)]
    /\ ChunkFrame

\* lines 295-305: the protection mask and the blend
PcProtect ==
    /\ chunk.pc = "protect"
    /\ IF chunk.keep /\ chunk.use_f0
         THEN LET mask == current_protect_mask(chunk.fine, chunk.protect_val,
                                               chunk.feats_len)
              IN  IF broadcasts(Len(mask), chunk.feats_len)
                    THEN chunk' = [chunk EXCEPT !.pc = "gen", !.mask = mask,
                                                !.blended = TRUE]
                  ELSE chunk' = [chunk EXCEPT !.pc = "raised", !.mask = mask,
                                              !.exc = "RuntimeError"]
       ELSE chunk' = [chunk EXCEPT !.pc = "gen"]
    /\ ChunkFrame

\* lines 308-316: the generator is handed the features, gen_p_len and the
\* pitch sequences, and returns the raw waveform (or raises)
PcGenerate ==
    /\ chunk.pc = "gen"
    /\ \/ chunk' = [chunk EXCEPT !.pc = "raised", !.exc = "GeneratorError"]
       \/ \E raw_len \in RawLens(chunk.n, chunk.tgt_sr, chunk.gen_p_len) :
             chunk' = [chunk EXCEPT !.pc = "trim", !.raw_len = raw_len,
                                    !.raw = <<>>, !.fine = <<>>, !.course = <<>>,
                                    !.mask = <<>>]
    /\ ChunkFrame

\* lines 342-358
PcTrim ==
    /\ chunk.pc = "trim"
    /\ chunk' = [chunk EXCEPT !.pc = "env",
                              !.trimmed = trim(chunk.raw_len, chunk.n, chunk.tgt_sr)]
    /\ ChunkFrame

\* lines 361-390; output_volume_envelope_mix is first read here
PcEnvelope ==
    /\ chunk.pc = "env"
    /\ \E mix \in EnvelopeMixes :
          chunk' = [chunk EXCEPT !.pc = "norm", !.mix = mix,
                                 !.out = envelope(chunk.trimmed, chunk.n,
                                                  chunk.tgt_sr, mix)]
    /\ ChunkFrame

\* lines 392-400: peak normalisation and return
PcNormalize ==
    /\ chunk.pc = "norm"
    /\ \E peak_over \in (IF chunk.out.kind = "zeros" THEN {FALSE} ELSE BOOLEAN) :
          chunk' = [chunk EXCEPT !.pc = "done",
                                 !.out = normalize(chunk.out, peak_over)]
    /\ ChunkFrame

\* the caller has the returned block (or the exception); the next block
\* can come
PcReturn ==
    /\ chunk.pc \in {"done", "raised"}
    /\ chunk' = ChunkIdle
    /\ ChunkFrame

NextChunk ==
    \/ PcLoad
    \/ PcCall
    \/ PcPitch
    \/ PcFeats
    \/ PcProtect
    \/ PcGenerate
    \/ PcTrim
    \/ PcEnvelope
    \/ PcNormalize
    \/ PcReturn

SpecChunk == Init /\ [][NextChunk]_vars


(* ============================== properties ============================= *)

StreamState ==
    <<rt, is_realtime_processing_active, vad_processor, realtime_settings,
      last_loaded, _stream, _is_streaming, process_audio_chunk_callback, hw>>

\* C1: a callback invocation that finds the session not ready or processing
\* not active writes a block of zeros of the input block's shape and calls
\* neither the VAD gate nor the chunk processor; no step of the callback
\* changes the resource session (it performs no load).
C1_SilenceWhenNotRunning ==
    /\ [](cb.pc = "done" /\ (~cb.ready \/ ~cb.active)
            => /\ cb.out = Some(zeros_like(indata))
               /\ cb.vad = "none"
               /\ cb.cp = "none")
    /\ [][cb' # cb => rt' = rt /\ last_loaded' = last_loaded]_vars

\* C1 witness: a callback fired on a running stream with a ready session while
\* processing was not active, took the line-79 exit and wrote zeros
C1_Witness ==
    /\ cb.pc = "done" /\ cb.gated /\ cb.ready /\ ~cb.active
    /\ cb.out = Some(zeros_like(indata))

\* C2: while Running with a ready session, a block that is not gated silent
\* and that the chunk processor converts without error is written to the
\* device as the converted block in the input block's shape, not as silence
\* substituted by an error path.
C2_ProcessedBlockWritten ==
    (cb.pc = "done" /\ cb.ready /\ cb.active /\ cb.vad # "silence"
       /\ cb.cp = "ok" /\ cb.exc # "ResampleError")
      => /\ Val(cb.out).kind = "converted"
         /\ Val(cb.out).shape = indata.shape
         /\ "audio_callback" \notin cb.caught

\* C3: no exception leaves audio_callback; a finished invocation has written
\* exactly one block of the device shape, converted or all zeros, and an
\* unfinished one has written nothing yet.
C3_OneBlockPerCallback ==
    /\ ~cb.escaped
    /\ cb.pc = "done" => /\ cb.written = 1
                         /\ cb.out # None
                         /\ Val(cb.out).shape = outdata_shape
                         /\ Val(cb.out).kind \in {"converted", "zeros"}
    /\ cb.pc # "done" => cb.written = 0

\* C3 witness: an exception was raised while handling a block, audio_callback
\* caught it and the block written is zeros
C3_Witness ==
    /\ cb.pc = "done" /\ cb.exc # "none" /\ "audio_callback" \in cb.caught
    /\ cb.written = 1 /\ cb.out = Some(Block("zeros", outdata_shape))

\* C4: once stop() has returned the stream is Idle: is_streaming() is false
\* and processing is inactive, whatever the transport's stop/close did.
C4_StopLeavesIdle ==
    \A t \in OneThread :
        (ctl[t].pc = "idle" /\ ctl[t].status = "stopped")
          => (~_is_streaming /\ ~is_realtime_processing_active)

\* C5: a start() call made while processing is active or the stream flag is
\* set returns the already-active error and changes nothing: no handle, flag,
\* session field, recorded tuple, setting or stream object.
C5_StartRejectedWhenActive ==
    [][\A t \in Ctl :
          (/\ ctl[t].pc = "idle" /\ ctl'[t] # ctl[t] /\ ctl'[t].op = "start"
           /\ (is_realtime_processing_active \/ _is_streaming))
            => /\ ctl'[t].pc = "idle"
               /\ ctl'[t].status = "already_active"
               /\ UNCHANGED StreamState]_vars

\* C5 witness: start() was rejected while the stream was Running
C5_Witness ==
    /\ ctl[1].pc = "idle" /\ ctl[1].op = "start" /\ ctl[1].status = "already_active"
    /\ is_realtime_processing_active /\ _is_streaming /\ _stream # None

\* C6: a callback that begins after stop() was called (and before any later
\* start() call) emits silence and calls neither the VAD gate nor the chunk
\* processor.
C6_SilenceAfterStop ==
    cb.after_stop
      => /\ cb.vad = "none"
         /\ cb.cp = "none"
         /\ cb.pc = "done" => is_zeros(Val(cb.out))

LoadOps == {"_load_hubert", "_load_rvc_model", "_load_index"}

\* C7: a load operation that fails on a ready session leaves the session
\* ready, with the handles and identities it had.
C7_FailedLoadKeepsSession ==
    [][(ctl'[1].op \in LoadOps /\ ~ctl'[1].flag /\ is_ready(rt))
          => (is_ready(rt') /\ rt' = rt)]_vars

\* the session holds exactly the resources load_resources(a) asks for
Installed(c, a) ==
    /\ c.hubert_model = Some(a.embedder) /\ c.current_embedder_model = Some(a.embedder)
    /\ c.net_g = Some(a.model_path) /\ c.current_model_path = Some(a.model_path)
    /\ c.sid = Some(a.sid) /\ c.vc_pipeline # None
    /\ \/ a.index_path # "" /\ c.index = Some(a.index_path)
                            /\ c.current_index_path = Some(a.index_path)
       \/ c.index = None /\ c.big_npy = None /\ c.current_index_path = None

\* C8: load_resources is all-or-nothing: when it returns, either everything
\* requested is installed or the session is exactly as it was before the call.
C8_ReloadAllOrNothing ==
    [][ctl'[1].op = "load_resources"
          => (Installed(rt', ctl'[1].args) \/ rt' = rt)]_vars

LoadPcs == {"l_hubert", "l_rvc", "l_index"}

\* C9: load_resources is never executing while a running stream's callbacks
\* can reach the chunk processor (processing active on a started stream).
C9_NoLoadWhileStreaming ==
    \A t \in Ctl :
        ctl[t].pc \in LoadPcs
          => ~(is_realtime_processing_active /\ \E s \in StreamIds : hw[s] = "active")

\* C10: when the chunk processor raises, the processing callback's own
\* handler catches it, the block written is zeros, nothing escapes, and the
\* callback's steps leave the stream state (flags, handle, session, settings)
\* as it was, so the gate is still open for the next block.
C10_ChunkErrorCaught ==
    /\ [](cb.cp = "raise"
            => /\ "rvc" \in cb.caught
               /\ ~cb.escaped
               /\ cb.pc = "done" => cb.out = Some(Block("zeros", outdata_shape)))
    /\ [][cb' # cb => UNCHANGED StreamState]_vars

\* C10 witness: the chunk processor raised, zeros were written, and the stream
\* is still Running with a ready session
C10_Witness ==
    /\ cb.pc = "done" /\ cb.cp = "raise" /\ "rvc" \in cb.caught
    /\ cb.out = Some(Block("zeros", outdata_shape))
    /\ is_ready(rt) /\ is_realtime_processing_active /\ _is_streaming
    /\ \E s \in StreamIds : hw[s] = "active"

\* C11: the silence block substituted when the chunk processor raises has
\* the expected output length, input block length * (target rate / feature
\* rate) samples, whatever the session's target rate is.
C11_ErrorSilenceLength ==
    (cb.pc = "cb_out" /\ cb.cp = "raise" /\ rt.tgt_sr # None)
      => /\ is_zeros(Val(cb.processed))
         /\ samples(Val(cb.processed).shape)
              = expected_out_len(samples(Val(cb.mic16).shape), Val(rt.tgt_sr))

\* C12: with VAD enabled and the gate reporting no speech, the chunk
\* processor is not called for that block and the block written to the device
\* is all zeros in the input block's shape, whatever the settings are.
C12_VadSilenceSkipsProcessor ==
    cb.vad = "silence"
      => /\ cb.cp = "none"
         /\ ~cb.escaped
         /\ cb.pc = "done" => cb.out = Some(zeros_like(indata))

\* C12 witness: a block gated silent by the VAD was written as zeros on a
\* running stream whose settings ask for a pitch shift
C12_Witness ==
    /\ cb.pc = "done" /\ cb.vad = "silence" /\ cb.cp = "none"
    /\ cb.out = Some(zeros_like(indata))
    /\ realtime_settings.vad_enabled /\ realtime_settings.pitch = 12
    /\ is_ready(rt) /\ is_realtime_processing_active

\* C13: when the VAD gate raises, the exception is swallowed and the block
\* goes to the chunk processor as when VAD is disabled: the same 16 kHz block,
\* no silence substituted by the gate, the chunk processor called; no step of
\* the callback changes the stream state.
C13_VadErrorFallsThrough ==
    /\ [](cb.vad = "error"
            => /\ "vad" \in cb.caught
               /\ ~cb.escaped
               /\ cb.pc = "cb_rvc"
                    => /\ cb.processed = None
                       /\ cb.mic16 = Some(resample(indata, REALTIME_STREAM_SAMPLE_RATE,
                                                   HUBERT_SAMPLE_RATE))
               /\ cb.pc \in {"cb_out", "done"} => cb.cp \in {"ok", "raise"})
    /\ [][cb.vad = "error" /\ cb' # cb => UNCHANGED StreamState]_vars

\* C13 witness: the gate raised on a block and the chunk processor then
\* converted that block
C13_Witness ==
    /\ cb.vad = "error" /\ cb.cp = "ok" /\ cb.pc = "cb_out"
    /\ Val(cb.processed).kind = "converted"
    /\ realtime_settings.vad_enabled /\ vad_processor # None

\* C14: when opening or starting the device stream fails, start() returns the
\* stream error and the stream is Idle: the stream flag and the processing
\* flag are both false, no stream object is running, and the next start() is
\* not rejected as already active.
C14_DeviceErrorLeavesIdle ==
    /\ [](\A t \in OneThread :
            (ctl[t].pc = "idle" /\ ctl[t].status = "stream_failed")
              => /\ ~_is_streaming
                 /\ ~is_realtime_processing_active
                 /\ \A s \in StreamIds : hw[s] # "active")
    /\ [][\A t \in OneThread :
            (/\ ctl[t].pc = "idle" /\ ctl[t].status = "stream_failed"
             /\ ctl'[t] # ctl[t] /\ ctl'[t].op = "start")
              => ctl'[t].status # "already_active"]_vars

\* C14 witness: the transport refused to start a stream that had been opened,
\* and start() returned the stream error
C14_Witness ==
    /\ ctl[1].pc = "idle" /\ ctl[1].op = "start" /\ ctl[1].status = "stream_failed"
    /\ _stream # None /\ hw[Val(_stream)] = "created"
    /\ ~_is_streaming /\ ~is_realtime_processing_active

\* the three handles is_ready() looks at
ReadyHandles == {"hubert_model", "net_g", "vc_pipeline"}

\* C15: after any sequence of load operations is_ready() is true exactly when
\* the embedder handle, the generator handle and the pipeline configuration
\* are all set, and setting any one of the three to None makes it false.
C15_ReadyIffAllHandles ==
    /\ is_ready(rt) <=> (\A f \in ReadyHandles : rt[f] # None)
    /\ \A f \in ReadyHandles : ~is_ready([rt EXCEPT ![f] = None])

\* C15 witness: the session is ready right after a load operation failed
\* (an index that could not be read)
C15_Witness ==
    /\ is_ready(rt) /\ ctl[1].op = "_load_index" /\ ~ctl[1].flag
    /\ rt.index = None

\* C16: a _load_rvc_model call that repeats the (model path, speaker id) of
\* the successful call right before it returns success, does not reach the
\* heavy parse and leaves every session field as it was.
C16_LoadGeneratorIdempotent ==
    [][(ctl'[1].op = "_load_rvc_model" /\ ctl'[1].rep)
          => /\ ctl'[1].flag
             /\ ctl'[1].heavy = {}
             /\ rt' = rt]_vars

\* C16 witness: the second of two identical _load_rvc_model calls has
\* returned success without the heavy parse
C16_Witness ==
    /\ ctl[1].op = "_load_rvc_model" /\ ctl[1].rep /\ ctl[1].flag
    /\ ctl[1].heavy = {}
    /\ rt.net_g = Some("m2") /\ rt.sid = Some(1)

\* the index file appeared or disappeared between two calls
IndexFileChanged ==
    \/ ctl[1].iout = "missing" /\ ctl'[1].iout \in {"ok", "unreadable"}
    \/ ctl[1].iout \in {"ok", "unreadable"} /\ ctl'[1].iout = "missing"

RvcFields == {"net_g", "cpt", "vc_pipeline", "current_model_path", "sid", "tgt_sr"}
IndexFields == {"index", "big_npy", "current_index_path"}

\* C18: load_resources runs the embedder, generator and index steps in that
\* order; it stops at the first step that fails, returns failure with that
\* step's message, attempts no later step and leaves the fields the later
\* steps own as they were; an empty model path fails before any step.
C18_LoadShortCircuits ==
    [][ctl'[1].op = "load_resources"
          => LET a == ctl'[1].args
                 st == ctl'[1].steps
                 ok == ctl'[1].flag
                 msg == ctl'[1].status IN
             /\ a.model_path = ""
                  => /\ ~ok /\ msg = "RVC Model path is required."
                     /\ st = <<>> /\ ctl'[1].heavy = {} /\ rt' = rt
             /\ a.model_path # ""
                  => /\ st = SubSeq(<<"hubert", "rvc", "index">>, 1, Len(st))
                     /\ Len(st) \in 1..3
                     /\ ctl'[1].heavy \subseteq {st[i] : i \in 1..Len(st)}
                     /\ ok => /\ Len(st) = 3
                              /\ msg = "Models loaded successfully."
                              /\ rt'.hubert_model # None /\ rt'.net_g # None
                     /\ (~ok /\ Len(st) = 1)
                          => /\ msg = "Failed to load Hubert model."
                             /\ rt'.hubert_model = None
                             /\ \A f \in RvcFields \cup IndexFields : rt'[f] = rt[f]
                     /\ (~ok /\ Len(st) = 2)
                          => /\ msg = "Failed to load RVC model from " \o a.model_path \o "."
                             /\ rt'.hubert_model # None /\ rt'.net_g = None
                             /\ \A f \in IndexFields : rt'[f] = rt[f]
                     /\ (~ok /\ Len(st) = 3)
                          => /\ msg = "Failed to load Index file from " \o a.index_path \o "."
                             /\ rt'.hubert_model # None /\ rt'.net_g # None
                             /\ rt'.index = None]_vars

\* C18 witness: load_resources failed at the generator step while an index
\* loaded earlier stays in the session
C18_Witness ==
    /\ ctl[1].op = "load_resources" /\ ~ctl[1].flag
    /\ ctl[1].steps = <<"hubert", "rvc">>
    /\ ctl[1].status = "Failed to load RVC model from m2."
    /\ rt.hubert_model # None /\ rt.net_g = None /\ rt.index = Some("i1")

\* C19 as stated: _load_index with an empty path, a missing file or an
\* unreadable index file returns success and leaves the index handle, the
\* vector set and the index identity all cleared.
C19_IndexAbsentNotError ==
    [][(/\ ctl'[1].op = "_load_index"
        /\ (ctl'[1].args.index_path = "" \/ ctl'[1].iout \in {"missing", "unreadable"}))
          => /\ ctl'[1].flag
             /\ rt'.index = None /\ rt'.big_npy = None
             /\ rt'.current_index_path = None]_vars

\* C19 amended: _load_index with an empty path or a missing file returns
\* success and leaves the index handle, the vector set and the index
\* identity all cleared; a read of an existing index file that raises makes
\* it return failure and leaves the handle and the vector set cleared.
C19_IndexEmptyOrMissingClears ==
    [][ctl'[1].op = "_load_index"
          => /\ (ctl'[1].args.index_path = "" \/ ctl'[1].iout = "missing")
                  => /\ ctl'[1].flag
                     /\ ctl'[1].heavy = {}
                     /\ rt'.index = None /\ rt'.big_npy = None
                     /\ rt'.current_index_path = None
             /\ (ctl'[1].iout = "unreadable" /\ "index" \in ctl'[1].heavy)
                  => /\ ~ctl'[1].flag
                     /\ rt'.index = None /\ rt'.big_npy = None]_vars

\* C19 witness: _load_index found the file missing, returned success and the
\* index state is cleared on a ready session
C19_Witness ==
    /\ ctl[1].op = "_load_index" /\ ctl[1].iout = "missing" /\ ctl[1].flag
    /\ rt.index = None /\ rt.big_npy = None /\ rt.current_index_path = None
    /\ is_ready(rt)

\* C20: whenever is_ready() is true after a load operation, the model path,
\* speaker id, embedder name and target rate are all set and are those of the
\* load that installed the handle: the handle's own origin, the arguments of
\* the call when it took the heavy path, and otherwise what they were.
C20_ReadyIdentities ==
    /\ [](is_ready(rt)
            => /\ rt.current_model_path # None /\ rt.sid # None
               /\ rt.current_embedder_model # None /\ rt.tgt_sr # None
               /\ rt.current_model_path = rt.net_g
               /\ rt.current_embedder_model = rt.hubert_model
               /\ rt.tgt_sr = Some(ModelTgtSr(Val(rt.net_g)))
               /\ rt.vc_pipeline = rt.tgt_sr)
    /\ [][is_ready(rt')
            => /\ "rvc" \in ctl'[1].heavy
                    => /\ rt'.current_model_path = Some(ctl'[1].args.model_path)
                       /\ rt'.sid = Some(ctl'[1].args.sid)
               /\ ("rvc" \notin ctl'[1].heavy /\ rt.net_g # None)
                    => /\ rt'.current_model_path = rt.current_model_path
                       /\ rt'.sid = rt.sid /\ rt'.tgt_sr = rt.tgt_sr
               /\ "hubert" \in ctl'[1].heavy
                    => rt'.current_embedder_model = Some(ctl'[1].args.embedder)
               /\ ("hubert" \notin ctl'[1].heavy /\ rt.hubert_model # None)
                    => rt'.current_embedder_model = rt.current_embedder_model]_vars

\* C20 witness: the session is ready after a heavy generator load with
\* speaker id 1 from the 40 kHz model
C20_Witness ==
    /\ is_ready(rt) /\ "rvc" \in ctl[1].heavy /\ ctl[1].flag
    /\ rt.sid = Some(1) /\ rt.tgt_sr = Some(40000)
    /\ rt.current_model_path = Some("m1")

\* the 4-tuple of identities of a request or of the recorded last load,
\* an absent index path read as empty (lines 189-192)
IdentityTuple(a) == <<a.model_path, norm_index(a.index_path), a.sid, a.embedder>>

\* C26: start() calls load_resources exactly when the requested 4-tuple
\* differs from the recorded one; with equal tuples it goes straight to the
\* readiness test and no load operation runs; the session changes only inside
\* a load, and the recorded tuple changes only after a load that returned
\* success, to the requested tuple.
C26_LoadIffTupleChanged ==
    [][\A t \in OneThread :
          /\ (ctl[t].pc = "s_cmp" /\ ctl'[t] # ctl[t])
               => /\ ctl'[t].pc = "l_hubert"
                       <=> IdentityTuple(ctl[t].args) # IdentityTuple(last_loaded)
                  /\ ctl'[t].pc = "s_ready"
                       <=> IdentityTuple(ctl[t].args) = IdentityTuple(last_loaded)
          /\ (ctl'[t].pc \in LoadPcs /\ ctl[t].pc \notin LoadPcs)
               => ctl[t].pc = "s_cmp"
          /\ rt' # rt => ctl[t].pc \in LoadPcs
          /\ last_loaded' # last_loaded
               => /\ ctl[t].pc = "s_after" /\ ctl[t].flag
                  /\ IdentityTuple(last_loaded') = IdentityTuple(ctl[t].args)]_vars

\* C26 witness: a start() with the recorded tuple (model m2 with an index)
\* went to the readiness test without loading
C26_Witness ==
    /\ ctl[1].pc = "s_ready" /\ ~ctl[1].flag
    /\ IdentityTuple(ctl[1].args) = IdentityTuple(last_loaded)
    /\ ctl[1].args.model_path = "m2" /\ ctl[1].args.index_path = "i1"

\* C29: whenever start() has started the stream, the session's loaded model
\* path, speaker id and embedder name are those of that start() call.
C29_StartedWithRequestedModel ==
    \A t \in OneThread :
        (ctl[t].pc = "s_active" /\ ctl[t].flag)
          => /\ rt.current_model_path = Some(ctl[t].args.model_path)
             /\ rt.net_g = Some(ctl[t].args.model_path)
             /\ rt.sid = Some(ctl[t].args.sid)
             /\ rt.current_embedder_model = Some(ctl[t].args.embedder)

\* C30: a start() that skips loading because its tuple equals the recorded
\* one finds the session ready, and so start() never returns 'Converter not
\* ready'.
C30_SkipImpliesReady ==
    /\ [](\A t \in OneThread : ctl[t].status # "not_ready")
    /\ [][\A t \in OneThread :
            (ctl[t].pc = "s_cmp" /\ ctl'[t].pc = "s_ready") => is_ready(rt)]_vars

\* C21: for every finite fine-pitch curve (all-zero and negative values
\* included) and every pitch shift, each coarse bucket the chunk processor
\* computes is an integer in 1..255, and a frame of zero fine pitch gets
\* bucket 1.
C21_CoarseBucketRange ==
    (chunk.use_f0 /\ chunk.pc \in {"feats", "protect", "gen"})
      => \A i \in DOMAIN chunk.course :
            /\ chunk.course[i] \in 1..255
            /\ chunk.fine[i] = 0 => chunk.course[i] = 1

C23_OutputLengthWithinFrame ==
    (chunk.pc = "done" /\ is_ready(rt) /\ ~chunk.use_f0 /\ chunk.mix = 100)
      => LET rounded == (2 * chunk.n * chunk.tgt_sr + HUBERT_SAMPLE_RATE)
                           \div (2 * HUBERT_SAMPLE_RATE)
             frame == (window * chunk.tgt_sr) \div HUBERT_SAMPLE_RATE
         IN  /\ chunk.out.len - rounded <= frame
             /\ rounded - chunk.out.len <= frame

\* C24: when voiceless protection is applied (the session uses pitch and the
\* protection strength is below 0.5) the mask has one value per feature
\* frame, exactly 1 where the fine pitch is > 0 and exactly the protection
\* strength elsewhere; when the session does not use pitch or the strength
\* is >= 0.5 there is no mask and no blend.
C24_ProtectionMask ==
    chunk.pc = "gen"
      => /\ (chunk.use_f0 /\ chunk.protect_val < 50)
              => /\ chunk.blended
                 /\ Len(chunk.mask) = chunk.feats_len
                 /\ \A i \in 1..Len(chunk.mask) :
                       chunk.mask[i] = IF chunk.fine[i] > 0 THEN 100
                                       ELSE chunk.protect_val
         /\ (~chunk.use_f0 \/ chunk.protect_val >= 50)
              => ~chunk.blended /\ chunk.mask = <<>>

\* a blend at strength 0.33 over a curve with voiced, silent and negative frames
C24_Witness ==
    /\ chunk.pc = "gen" /\ chunk.blended /\ chunk.protect_val = 33
    /\ \E i, j, k \in 1..Len(chunk.mask) :
          /\ chunk.fine[i] > 0 /\ chunk.mask[i] = 100
          /\ chunk.fine[j] = 0 /\ chunk.mask[j] = 33
          /\ chunk.fine[k] < 0 /\ chunk.mask[k] = 33

\* C25: on every call for a pitch-using session, the frame count handed to
\* generation is min(upsampled feature length, padded length / window), and
\* the fine and the coarse pitch sequence handed to generation each have
\* exactly that many frames, whatever length the predictor returned.
C25_PitchAlignedToFrameCount ==
    (chunk.use_f0 /\ chunk.pc = "gen")
      => /\ chunk.gen_p_len <= chunk.feats_len
         /\ chunk.gen_p_len <= (chunk.n + 2 * t_pad) \div window
         /\ chunk.gen_p_len \in {chunk.feats_len, (chunk.n + 2 * t_pad) \div window}
         /\ Len(chunk.fine) = chunk.gen_p_len
         /\ Len(chunk.course) = chunk.gen_p_len

\* C27: with autotune enabled the semitone shift is applied to the fine
\* pitch before the autotune pass, so the fine pitch that is quantized and
\* handed on is autotune(shift(raw pitch)) at every frame.
C27_ShiftThenAutotune ==
    (chunk.use_f0 /\ chunk.f0_autotune /\ chunk.pc = "feats")
      => /\ chunk.passes = <<"shift", "autotune">>
         /\ \A i \in DOMAIN chunk.raw :
               chunk.fine[i] = autotune_f0(shift(chunk.raw[i], chunk.pitch_change),
                                           chunk.strength)

\* the call's selector is neither a loaded rmvpe nor fcpe
FallbackSelected ==
    /\ chunk.use_f0
    /\ \/ chunk.f0_method \notin {"rmvpe", "fcpe"}
       \/ chunk.f0_method = "rmvpe" /\ ~chunk.rmvpe

\* C28: for a pitch-using session, a selector other than rmvpe or fcpe (and
\* rmvpe with no rmvpe predictor loaded) takes the fallback path without
\* failing: the fine pitch is zero at every frame, one value per frame of the
\* padded block, every coarse bucket is 1, and the protection mask treats
\* every frame as unvoiced.
C28_FallbackIsZeroPitch ==
    FallbackSelected
      => /\ chunk.exc # "PredictorError"
         /\ chunk.pc = "feats"
              => /\ Len(chunk.fine) = (chunk.n + 2 * t_pad) \div window
                 /\ Len(chunk.course) = Len(chunk.fine)
                 /\ \A i \in DOMAIN chunk.fine :
                       chunk.fine[i] = 0 /\ chunk.course[i] = 1
         /\ (chunk.pc = "gen" /\ chunk.blended)
              => \A i \in DOMAIN chunk.mask : chunk.mask[i] = chunk.protect_val

\* stream objects the transport holds open (created and not closed)
OpenStreams == {s \in StreamIds : hw[s] # "free"}

\* C31: at most one device stream is open at any time, also when start()
\* calls overlap: at most one of them creates and starts a stream.
C31_AtMostOneOpenStream == Cardinality(OpenStreams) <= 1

\* C32: the feature sequence handed to the generator has exactly as many
\* frames as the frame-count scalar handed with it, and the protection mask
\* has as many frames as the features it multiplies, for every upsampled
\* feature length and frame count (feature length above the frame count
\* included).
C32_FeaturesMatchFrameCount ==
    /\ chunk.pc = "gen" => chunk.feats_len = chunk.gen_p_len
    /\ chunk.mask # <<>> => Len(chunk.mask) = chunk.feats_len

\* the Starting window: start() has started the device stream
\* (realtime_audio_utils.py line 102) and has not yet reached the assignment
\* of is_realtime_processing_active (realtime.py lines 239-241)
StartingWindow ==
    \E t \in OneThread :
        /\ ctl[t].op = "start" /\ ctl[t].pc \in {"st_flag", "s_active"}
        /\ _stream # None /\ hw[Val(_stream)] = "active"

C34_FlagIffHandle ==
    (\A t \in OneThread : ctl[t].pc = "idle")
      => /\ _is_streaming <=> _stream # None
         /\ _stream # None => hw[Val(_stream)] = "active"

====
